---- MODULE Spec2Model ----
(***************************************************************************)
(* Model of src/desktop_app/main.py: ArmController (serial command /        *)
(* response / telemetry engine) and the telemetry handler of                *)
(* ArmControllerGUI.                                                        *)
(*                                                                          *)
(* The foreground (GUI main thread) runs connect, disconnect and            *)
(* send_command one at a time; every successful connect starts one          *)
(* dispatcher thread running _read_telemetry_loop.  The controller device   *)
(* is the environment: it receives the commands written and puts lines on   *)
(* the serial input queue one byte at a time.                               *)
(***************************************************************************)
EXTENDS Integers, Sequences, FiniteSets, TLC

\* ------------------------------------------------------------------ bounds
MaxConnects == 2      \* successful connect() calls (handles / threads created)
MaxLines    == 2      \* lines the device emits
MaxEvents   == 3      \* successful connect() calls and device lines together
MaxPending  == 1      \* commands written and not yet answered by the device
MaxPolls    == 2      \* iterations of the wait loop before 2.0 s have elapsed

NoHandle == 0         \* Python None for self.serial / self.telemetry_thread

Threads == 1..MaxConnects

\* ------------------------------------------------------- JSON values, lines
\* A JSON value.  json: "object" (dict), "number" (a non-dict value),
\* "invalid" (text json.loads rejects), "None" (Python None), "error"
\* (JSONDecodeError).  keys is the set of keys present in a dict.
Val(j, k, ty, c, st, jn) ==
    [json |-> j, keys |-> k, type |-> ty, cmd |-> c, state |-> st, joints |-> jn]

Obj(k, ty, c, st, jn) == Val("object", k, ty, c, st, jn)

PyNone      == Val("None", {}, "", "", "", <<>>)
DecodeError == Val("error", {}, "", "", "", <<>>)
NumberVal   == Val("number", {}, "", "", "", <<>>)
InvalidText == Val("invalid", {}, "", "", "", <<>>)

\* {"status": "ok", "message": "command sent"}
SyntheticOk == Obj({"status", "message"}, "", "", "", <<>>)

CmdNames == {"ping", "get_state", "set_joints", "play_idle", "estop"}

\* The command object each wrapper passes to send_command.
Command(c) ==
    CASE c = "set_joints" -> Obj({"cmd", "targets", "speed"}, "", c, "", <<>>)
      [] c = "play_idle"  -> Obj({"cmd", "name"}, "", c, "", <<>>)
      [] OTHER            -> Obj({"cmd"}, "", c, "", <<>>)

\* What the device may answer to a command named c: a reply with the state,
\* or the bare acknowledgement (for ping, the echo of the bytes written).
Echo(c)       == Command(c)
ReplyState(c) == Obj({"cmd", "state"}, "", c, "idle", <<>>)
ReplyOk(c)    == Obj({"cmd", "status"}, "", c, "", <<>>)
Replies(c)    == {ReplyState(c), IF c = "ping" THEN Echo(c) ELSE ReplyOk(c)}

Six   == <<10, 20, 30, 40, 50, 60>>
Five  == <<10, 20, 30, 40, 50>>

\* Lines the device emits on its own.
Unsolicited ==
    { Obj({"type", "joints", "state"}, "telemetry", "", "estop", Six),
      Obj({"type", "joints", "state"}, "telemetry", "", "estop", Five),
      Obj({"type", "state"}, "telemetry", "", "manual", <<>>),
      Obj({"type"}, "telemetry", "", "", <<>>),
      Obj({"status"}, "", "", "", <<>>),
      InvalidText }

\* What a line is on the wire: the answer to a command (the command's name),
\* a line of the device's own ("unsol"), or a bare number ("num").
Kinds == CmdNames \cup {"unsol", "num"}

\* The texts a line of kind k can have.  Which one a line has shows only when
\* json.loads sees the whole line, and is chosen there.
Texts(k) ==
    CASE k = "unsol" -> Unsolicited
      [] k = "num"   -> {NumberVal}
      [] OTHER       -> Replies(k)

\* One byte on the wire: a part of the text of the n-th line the device
\* emits, or the newline that ends it.
Byte(n, k, p) == [n |-> n, kind |-> k, part |-> p]

\* The parts the text of a line travels in.
TextParts == <<"text">>

\* json.dumps(x) + '\n' as bytes
Encode(n, k) ==
    [i \in 1..Len(TextParts) |-> Byte(n, k, TextParts[i])] \o << Byte(n, k, "nl") >>

IsNL(b) == b.part = "nl"

IsSpace(b) == IsNL(b)

RECURSIVE LStrip(_)
LStrip(s) == IF s # <<>> /\ IsSpace(Head(s)) THEN LStrip(Tail(s)) ELSE s

RECURSIVE RStrip(_)
RStrip(s) ==
    IF s # <<>> /\ IsSpace(s[Len(s)]) THEN RStrip(SubSeq(s, 1, Len(s) - 1)) ELSE s

\* str.strip()
Strip(s) == RStrip(LStrip(s))

\* The text is the whole text of one line.
WholeLine(s) ==
    /\ Len(s) = Len(TextParts)
    /\ \A i \in 1..Len(s) : s[i].part = TextParts[i] /\ s[i].n = s[1].n

\* What json.loads(text) can give for a non-empty stripped text: the whole
\* text of a line parses to the value it encodes; a fragment, or fragments run
\* together, parse only when they are digits.
Loads(s) ==
    IF WholeLine(s)
    THEN {IF m.json = "invalid" THEN DecodeError ELSE m : m \in Texts(s[1].kind)}
    ELSE IF \A i \in 1..Len(s) : s[i].kind = "num" /\ ~IsNL(s[i])
         THEN {NumberVal}
         ELSE {DecodeError}

IsDict(v) == v.json = "object"

\* dict.get("type"); absent gives "" which equals no type string
GetType(v) == IF "type" \in v.keys THEN v.type ELSE ""

\* ------------------------------------------------------- pure functions
PyTrue  == Val("True", {}, "", "", "", <<>>)
PyFalse == Val("False", {}, "", "", "", <<>>)
Bool(b) == IF b THEN PyTrue ELSE PyFalse

\* SendResult with a reply required to carry a state field as well
SendResult_NeedsState(response) ==
    IF response = DecodeError THEN PyNone
    ELSE IF IsDict(response) /\ "cmd" \in response.keys
             /\ "state" \in response.keys
             /\ GetType(response) # "telemetry"
         THEN response
         ELSE SyntheticOk

\* SendResult with a line that does not parse taken as "something else"
SendResult_MalformedIsOther(response) ==
    IF IsDict(response) /\ "cmd" \in response.keys
          /\ GetType(response) # "telemetry"
    THEN response
    ELSE SyntheticOk

\* send_command, lines 109-120: the value returned for what json.loads gave
SendResult(response) ==
    IF response = DecodeError THEN PyNone
    ELSE IF IsDict(response) /\ "cmd" \in response.keys
             /\ GetType(response) # "telemetry"
         THEN response
         ELSE SyntheticOk

\* ping with the test for the state field left out
ping_AnyReply(response) == Bool(response # PyNone)

\* ping(), line 152
ping(response) == Bool(response # PyNone /\ "state" \in response.keys)

\* IsNotNone with the synthetic success counted as no reply
IsNotNone_RealOnly(response) == Bool(response # PyNone /\ response # SyntheticOk)

\* set_joints / play_idle / emergency_stop, lines 166, 175, 181
IsNotNone(response) == Bool(response # PyNone)

\* The value the wrapper named c returns for send_command's value.
Wrapper(c, response) ==
    CASE c = "ping"      -> ping(response)
      [] c = "get_state" -> response
      [] OTHER           -> IsNotNone(response)

\* str.upper() on one character
Upper(ch) ==
    CASE ch = "c" -> "C" [] ch = "h" -> "H" [] ch = "e" -> "E"
      [] ch = "s" -> "S" [] ch = "p" -> "P" [] ch = "b" -> "B"
      [] ch = "t" -> "T" [] ch = "u" -> "U"
      [] OTHER -> ch

UpperSeq(s) == [i \in 1..Len(s) |-> Upper(s[i])]

\* keyword in text
Contains(text, kw) ==
    \E i \in 0..(Len(text) - Len(kw)) :
        \A j \in 1..Len(kw) : text[i + j] = kw[j]

Keywords ==
    { <<"E", "S", "P", "3", "2">>, <<"C", "P", "2", "1", "0">>,
      <<"C", "H", "3", "4", "0">>, <<"F", "T", "D", "I">> }

Matches(p) == \E kw \in Keywords : Contains(UpperSeq(p.description), kw)

\* find_esp32_port(): the device of the first port whose description matches,
\* "" (None) when there is none.
find_esp32_port(ports) ==
    IF \E i \in 1..Len(ports) : Matches(ports[i])
    THEN ports[CHOOSE i \in 1..Len(ports) :
                   /\ Matches(ports[i])
                   /\ \A k \in 1..(i - 1) : ~Matches(ports[k])].device
    ELSE ""

\* What serial.tools.list_ports.comports() may return.
PortLists ==
    { <<>>,
      << [device |-> "COM1", description |-> <<"b", "t">>] >>,
      << [device |-> "COM1", description |-> <<"b", "t">>],
         [device |-> "COM7", description |-> <<"u", "s", "b", " ", "c", "h", "3", "4", "0">>],
         [device |-> "COM4", description |-> <<"E", "S", "P", "3", "2">>] >> }

\* get_state_color(), lines 356-365
get_state_color(state) ==
    CASE state = "idle"   -> "green"
      [] state = "manual" -> "blue"
      [] state = "estop"  -> "red"
      [] OTHER            -> "orange"

\* str.title() on the state words
Title(state) ==
    CASE state = "idle"   -> "Idle"
      [] state = "manual" -> "Manual"
      [] state = "estop"  -> "Estop"
      [] OTHER            -> state

\* handle_telemetry(), lines 340-354: the new current_angles
AnglesAfter(telemetry, angles) ==
    IF "joints" \in telemetry.keys /\ Len(telemetry.joints) = 6
    THEN telemetry.joints
    ELSE angles

\* LabelAfter with the state taken only from a frame whose joints are valid
LabelAfter_ValidJointsOnly(telemetry, label) ==
    IF "state" \in telemetry.keys
       /\ "joints" \in telemetry.keys /\ Len(telemetry.joints) = 6
    THEN [text |-> <<"Status: ", Title(telemetry.state)>>,
          fg   |-> get_state_color(telemetry.state)]
    ELSE label

\* handle_telemetry(), lines 352-354: the new status label
LabelAfter(telemetry, label) ==
    IF "state" \in telemetry.keys
    THEN [text |-> <<"Status: ", Title(telemetry.state)>>,
          fg   |-> get_state_color(telemetry.state)]
    ELSE label

\* _read_telemetry_loop, line 138: the frame goes to the callback
Forwarded(data) ==
    GetType(data) = "telemetry" /\ "joints" \in data.keys

\* ------------------------------------------------------------------ state
VARIABLES
    port,              \* self.port ("" is None)
    serial,            \* self.serial: handle id, NoHandle is None
    running,           \* self.running
    telemetry_thread,  \* self.telemetry_thread: thread id, NoHandle is None
    isOpen,            \* the handles whose is_open is true
    rx,                \* bytes waiting in the serial input queue
    devOut,            \* bytes of the line the device is transmitting
    pending,           \* names of the commands the device has not answered
    emitted,           \* lines the device has emitted
    tpc,               \* position of each dispatcher thread
    tH,                \* the handle whose readline() the thread is inside
    tline,             \* the bytes that readline() has collected
    tdata,             \* data, what json.loads gave the thread
    fpc,               \* position of the foreground
    call,              \* the controller method the foreground is inside
    response_line,     \* send_command's response_line
    elapsed,           \* iterations of send_command's wait loop so far
    response,          \* send_command's response, what json.loads gave
    ret,               \* the value send_command returns
    result,            \* the value the called method returns
    raised,            \* the exception send_command caught at line 125, "" none
    current_angles,    \* ArmControllerGUI.current_angles
    status_label       \* text and colour of ArmControllerGUI.status_label

ctl  == <<port, serial, running, telemetry_thread>>
env  == <<isOpen, rx, devOut, pending, emitted>>
thr  == <<tpc, tH, tline, tdata>>
fg   == <<fpc, call, response_line, elapsed, response, ret, result, raised>>
gui  == <<current_angles, status_label>>
vars == <<ctl, env, thr, fg, gui>>

\* ArmController.__init__ and ArmControllerGUI.__init__
Init ==
    /\ port \in {"", "COM7"}
    /\ serial = NoHandle
    /\ running = FALSE
    /\ telemetry_thread = NoHandle
    /\ isOpen = {}
    /\ rx = <<>>
    /\ devOut = <<>>
    /\ pending = <<>>
    /\ emitted = 0
    /\ tpc = [t \in Threads |-> "none"]
    /\ tH = [t \in Threads |-> NoHandle]
    /\ tline = [t \in Threads |-> <<>>]
    /\ tdata = [t \in Threads |-> PyNone]
    /\ fpc = "idle"
    /\ call = ""
    /\ response_line = <<>>
    /\ elapsed = 0
    /\ response = PyNone
    /\ ret = PyNone
    /\ result = PyNone
    /\ raised = ""
    /\ current_angles = <<90, 45, 120, 90, 0, 30>>
    /\ status_label = [text |-> <<"Status: ", "Disconnected">>, fg |-> "red"]

\* Connected with is_open left untested
Connected_HandleSet == serial # NoHandle

\* self.serial and self.serial.is_open
Connected == serial # NoHandle /\ serial \in isOpen

\* Thread.is_alive()
Alive(t) == tpc[t] \notin {"none", "done"}

\* ------------------------------------------------------------- foreground
\* The called method returns v.
Returns(v) ==
    /\ fpc' = "ret"
    /\ result' = v

\* Connect with the running flag raised before the port is opened
Connect_RunningBeforeOpen ==
    /\ fpc = "idle"
    /\ call' = "connect"
    /\ \E ports \in PortLists, opens \in BOOLEAN :
         LET p == IF port = "" THEN find_esp32_port(ports) ELSE port IN
         /\ port' = p
         /\ IF p # "" /\ opens /\ serial < MaxConnects
               /\ serial + emitted < MaxEvents
            THEN LET h == serial + 1 IN
                 /\ serial' = h
                 /\ isOpen' = isOpen \cup {h}
                 /\ rx' = <<>>
                 /\ running' = TRUE
                 /\ telemetry_thread' = h
                 /\ tpc' = [tpc EXCEPT ![h] = "loop"]
                 /\ Returns(PyTrue)
            ELSE /\ running' = TRUE
                 /\ UNCHANGED <<serial, isOpen, rx, telemetry_thread, tpc>>
                 /\ Returns(PyFalse)
    /\ UNCHANGED <<devOut, pending, emitted, tH, tline, tdata, response_line,
                   elapsed, response, ret, raised, gui>>

\* connect(), lines 48-70.  Opening the port empties its input queue.
Connect ==
    /\ fpc = "idle"
    /\ call' = "connect"
    /\ \E ports \in PortLists, opens \in BOOLEAN :
         LET p == IF port = "" THEN find_esp32_port(ports) ELSE port IN
         /\ port' = p
         /\ IF p # "" /\ opens /\ serial < MaxConnects
               /\ serial + emitted < MaxEvents
            THEN LET h == serial + 1 IN
                 /\ serial' = h
                 /\ isOpen' = isOpen \cup {h}
                 /\ rx' = <<>>
                 /\ running' = TRUE
                 /\ telemetry_thread' = h
                 /\ tpc' = [tpc EXCEPT ![h] = "loop"]
                 /\ Returns(PyTrue)
            ELSE /\ UNCHANGED <<serial, isOpen, rx, running, telemetry_thread, tpc>>
                 /\ Returns(PyFalse)
    /\ UNCHANGED <<devOut, pending, emitted, tH, tline, tdata, response_line,
                   elapsed, response, ret, raised, gui>>

\* disconnect(), line 74
DisconnectBegin ==
    /\ fpc = "idle"
    /\ call' = "disconnect"
    /\ running' = FALSE
    /\ fpc' = "join"
    /\ UNCHANGED <<port, serial, telemetry_thread, env, thr, response_line,
                   elapsed, response, ret, result, raised, gui>>

\* Close with serial.close() left out
Close_KeepsOpen ==
    /\ Returns(PyNone)
    /\ UNCHANGED <<ctl, env, thr, call, response_line, elapsed, response, ret,
                   raised, gui>>

\* disconnect(), lines 78-80
Close ==
    /\ isOpen' = IF Connected THEN isOpen \ {serial} ELSE isOpen
    /\ Returns(PyNone)
    /\ UNCHANGED <<ctl, rx, devOut, pending, emitted, thr, call, response_line,
                   elapsed, response, ret, raised, gui>>

\* disconnect(), lines 75-76: there is no thread, or join() sees it finished
DisconnectJoined ==
    /\ fpc = "join"
    /\ IF telemetry_thread = NoHandle THEN TRUE ELSE ~Alive(telemetry_thread)
    /\ Close

\* disconnect(), line 76: join(timeout=1.0) gives up on a thread that is
\* inside readline() or inside the callback
DisconnectJoinTimeout ==
    /\ fpc = "join"
    /\ telemetry_thread # NoHandle
    /\ tpc[telemetry_thread] \in {"read", "cb"}
    /\ Close

\* send_command returns None without a response: lines 84-86, 121-127
FinishNone ==
    /\ response' = PyNone
    /\ ret' = PyNone
    /\ Returns(Wrapper(call', PyNone))

\* send_command, lines 106-123, and the wrapper's return
Finish(line) ==
    IF Strip(line) = <<>>
    THEN FinishNone
    ELSE \E r \in Loads(Strip(line)) :
           /\ response' = r
           /\ ret' = SendResult(r)
           /\ Returns(Wrapper(call', SendResult(r)))

\* A wrapper calls send_command: lines 84-96.  A failing write raises, which
\* lines 125-127 turn into None.
SendBegin(c) ==
    /\ fpc = "idle"
    /\ call' = c
    /\ IF ~Connected
       THEN /\ FinishNone
            /\ UNCHANGED <<pending, response_line, elapsed, raised>>
       ELSE /\ Len(pending) < MaxPending
            /\ \E written \in BOOLEAN :
                 IF written
                 THEN /\ pending' = Append(pending, c)
                      /\ response_line' = <<>>
                      /\ elapsed' = 0
                      /\ fpc' = "wait"
                      /\ UNCHANGED <<response, ret, result, raised>>
                 ELSE /\ FinishNone
                      /\ raised' = "write"
                      /\ UNCHANGED <<pending, response_line, elapsed>>
    /\ UNCHANGED <<ctl, isOpen, rx, devOut, emitted, thr, gui>>

\* SendPoll with no time passing while the queue is empty
SendPoll_ClockStopped ==
    /\ fpc = "wait"
    /\ call' = call
    /\ IF elapsed >= MaxPolls
       THEN /\ Finish(response_line)
            /\ elapsed' = 0
            /\ UNCHANGED <<response_line, raised>>
       ELSE \E failed \in BOOLEAN :
              IF failed
              THEN /\ FinishNone
                   /\ raised' = "read"
                   /\ elapsed' = 0
                   /\ response_line' = <<>>
              ELSE IF rx # <<>>
                   THEN /\ fpc' = "read"
                        /\ UNCHANGED <<response_line, elapsed, response, ret,
                                       result, raised>>
                   ELSE /\ elapsed' = elapsed
                        /\ UNCHANGED <<fpc, response_line, response, ret,
                                       result, raised>>
    /\ UNCHANGED <<ctl, env, thr, gui>>

\* send_command, lines 98-99 and 104: the loop test, in_waiting, the sleep.
\* A failing port raises, which lines 125-127 turn into None.
SendPoll ==
    /\ fpc = "wait"
    /\ call' = call
    /\ IF elapsed >= MaxPolls
       THEN /\ Finish(response_line)
            /\ elapsed' = 0
            /\ UNCHANGED <<response_line, raised>>
       ELSE \E failed \in BOOLEAN :
              IF failed
              THEN /\ FinishNone
                   /\ raised' = "read"
                   /\ elapsed' = 0
                   /\ response_line' = <<>>
              ELSE IF rx # <<>>
                   THEN /\ fpc' = "read"
                        /\ UNCHANGED <<response_line, elapsed, response, ret,
                                       result, raised>>
                   ELSE /\ elapsed' = elapsed + 1
                        /\ UNCHANGED <<fpc, response_line, response, ret,
                                       result, raised>>
    /\ UNCHANGED <<ctl, env, thr, gui>>

\* send_command, lines 100-104: read one character.  With the queue emptied
\* by the other reader, read() gives '' after its timeout.
SendRead ==
    /\ fpc = "read"
    /\ call' = call
    /\ IF rx = <<>>
       THEN /\ elapsed' = elapsed + 1
            /\ fpc' = "wait"
            /\ UNCHANGED <<rx, response_line, response, ret, result>>
       ELSE /\ rx' = Tail(rx)
            /\ response_line' = Append(response_line, Head(rx))
            /\ IF IsNL(Head(rx))
               THEN /\ Finish(Append(response_line, Head(rx)))
                    /\ elapsed' = 0
               ELSE /\ elapsed' = elapsed + 1
                    /\ fpc' = "wait"
                    /\ UNCHANGED <<response, ret, result>>
    /\ UNCHANGED <<ctl, isOpen, devOut, pending, emitted, thr, raised, gui>>

\* The called method hands its value to the caller.
Return ==
    /\ fpc = "ret"
    /\ fpc' = "idle"
    /\ call' = ""
    /\ response_line' = <<>>
    /\ elapsed' = 0
    /\ response' = PyNone
    /\ ret' = PyNone
    /\ result' = PyNone
    /\ raised' = ""
    /\ UNCHANGED <<ctl, env, thr, gui>>

\* ---------------------------------------------- _read_telemetry_loop
\* The thread t goes to position p.
Goto(t, p) == tpc' = [tpc EXCEPT ![t] = p]

\* line 131: the loop test (after the sleep of line 143)
TLoop(t) ==
    /\ tpc[t] = "loop"
    /\ Goto(t, IF running /\ Connected THEN "avail" ELSE "done")
    /\ UNCHANGED <<ctl, env, tH, tline, tdata, fg, gui>>

\* TAvail with the running flag cleared when the port fails
TAvail_ErrorClearsRunning(t) ==
    /\ tpc[t] = "avail"
    /\ IF ~Connected
       THEN /\ Goto(t, "done")
            /\ UNCHANGED <<tH, running>>
       ELSE \E failed \in BOOLEAN :
              IF failed
              THEN /\ Goto(t, "done")
                   /\ running' = FALSE
                   /\ UNCHANGED tH
              ELSE IF rx # <<>>
                   THEN /\ Goto(t, "read")
                        /\ tH' = [tH EXCEPT ![t] = serial]
                        /\ UNCHANGED running
                   ELSE /\ Goto(t, "loop")
                        /\ UNCHANGED <<tH, running>>
    /\ UNCHANGED <<port, serial, telemetry_thread, env, tline, tdata, fg, gui>>

\* line 133: self.serial.in_waiting; a closed handle or a failing port
\* raises, which lines 144-147 turn into the end of the loop
TAvail(t) ==
    /\ tpc[t] = "avail"
    /\ IF ~Connected
       THEN /\ Goto(t, "done")
            /\ UNCHANGED tH
       ELSE \E failed \in BOOLEAN :
              IF failed
              THEN /\ Goto(t, "done")
                   /\ UNCHANGED tH
              ELSE IF rx # <<>>
                   THEN /\ Goto(t, "read")
                        /\ tH' = [tH EXCEPT ![t] = serial]
                   ELSE /\ Goto(t, "loop")
                        /\ UNCHANGED tH
    /\ UNCHANGED <<ctl, env, tline, tdata, fg, gui>>

\* line 134: readline() takes the next byte; it returns at a newline, and
\* raises when its handle has been closed
TReadByte(t) ==
    /\ tpc[t] = "read"
    /\ IF tH[t] \notin isOpen
       THEN /\ Goto(t, "done")
            /\ tline' = [tline EXCEPT ![t] = <<>>]
            /\ tH' = [tH EXCEPT ![t] = NoHandle]
            /\ UNCHANGED rx
       ELSE /\ rx # <<>>
            /\ rx' = Tail(rx)
            /\ tline' = [tline EXCEPT ![t] = Append(tline[t], Head(rx))]
            /\ IF IsNL(Head(rx))
               THEN /\ Goto(t, "got")
                    /\ tH' = [tH EXCEPT ![t] = NoHandle]
               ELSE UNCHANGED <<tpc, tH>>
    /\ UNCHANGED <<ctl, isOpen, devOut, pending, emitted, tdata, fg, gui>>

\* line 134: no byte for 1 s (timeout=1, line 58): readline() returns what
\* it has
TReadTimeout(t) ==
    /\ tpc[t] = "read"
    /\ tH[t] \in isOpen
    /\ rx = <<>>
    /\ Goto(t, "got")
    /\ tH' = [tH EXCEPT ![t] = NoHandle]
    /\ UNCHANGED <<ctl, env, tline, tdata, fg, gui>>

\* lines 134-137 and 140-142: strip, the test for an empty line, json.loads
TDecode(t) ==
    /\ tpc[t] = "got"
    /\ tline' = [tline EXCEPT ![t] = <<>>]
    /\ IF Strip(tline[t]) = <<>>
       THEN /\ Goto(t, "loop")
            /\ UNCHANGED tdata
       ELSE \E r \in Loads(Strip(tline[t])) :
              IF r = DecodeError
              THEN /\ Goto(t, "loop")
                   /\ UNCHANGED tdata
              ELSE /\ Goto(t, "data")
                   /\ tdata' = [tdata EXCEPT ![t] = r]
    /\ UNCHANGED <<ctl, env, tH, fg, gui>>

\* line 138: data.get on a value that is not a dict raises AttributeError,
\* which line 144 catches: the loop ends.  A dict is forwarded or dropped.
TClassify(t) ==
    /\ tpc[t] = "data"
    /\ IF ~IsDict(tdata[t])
       THEN /\ Goto(t, "done")
            /\ tdata' = [tdata EXCEPT ![t] = PyNone]
       ELSE IF Forwarded(tdata[t])
            THEN /\ Goto(t, "cb")
                 /\ UNCHANGED tdata
            ELSE /\ Goto(t, "loop")
                 /\ tdata' = [tdata EXCEPT ![t] = PyNone]
    /\ UNCHANGED <<ctl, env, tH, tline, fg, gui>>

\* line 139: telemetry_callback(data) is handle_telemetry, lines 340-354
TCallback(t) ==
    /\ tpc[t] = "cb"
    /\ current_angles' = AnglesAfter(tdata[t], current_angles)
    /\ status_label' = LabelAfter(tdata[t], status_label)
    /\ Goto(t, "loop")
    /\ tdata' = [tdata EXCEPT ![t] = PyNone]
    /\ UNCHANGED <<ctl, env, tH, tline, fg>>

\* ------------------------------------------------------------ the device
\* The device starts to transmit a line of kind k.
Emit(k) ==
    /\ devOut = <<>>
    /\ emitted < MaxLines
    /\ serial + emitted < MaxEvents
    /\ devOut' = Encode(emitted + 1, k)
    /\ emitted' = emitted + 1

\* The device answers the oldest command it has received.
DeviceReply ==
    /\ pending # <<>>
    /\ Emit(Head(pending))
    /\ pending' = Tail(pending)
    /\ UNCHANGED <<ctl, isOpen, rx, thr, fg, gui>>

\* The device emits a line of its own.
DeviceTelemetry ==
    /\ \E k \in {"unsol", "num"} : Emit(k)
    /\ UNCHANGED <<ctl, isOpen, rx, pending, thr, fg, gui>>

\* One byte of the device's line reaches the input queue of the open port.
DeviceByte ==
    /\ devOut # <<>>
    /\ isOpen # {}
    /\ rx' = Append(rx, Head(devOut))
    /\ devOut' = Tail(devOut)
    /\ UNCHANGED <<ctl, isOpen, pending, emitted, thr, fg, gui>>

\* ------------------------------------------------------------------ system
Next ==
    \/ Connect
    \/ DisconnectBegin
    \/ DisconnectJoined
    \/ DisconnectJoinTimeout
    \/ \E c \in CmdNames : SendBegin(c)
    \/ SendPoll
    \/ SendRead
    \/ Return
    \/ \E t \in Threads : TLoop(t)
    \/ \E t \in Threads : TAvail(t)
    \/ \E t \in Threads : TReadByte(t)
    \/ \E t \in Threads : TReadTimeout(t)
    \/ \E t \in Threads : TDecode(t)
    \/ \E t \in Threads : TClassify(t)
    \/ \E t \in Threads : TCallback(t)
    \/ DeviceReply
    \/ DeviceTelemetry
    \/ DeviceByte

Spec == Init /\ [][Next]_vars

\* Scheduling of the foreground: send_command, once inside its wait loop,
\* takes its next step.  Whether the port fails is free.
SendFairness ==
    WF_vars(SendPoll /\ raised' = "") /\ WF_vars(SendRead)

\* Scheduling: a thread that can take its next step takes it, and so does a
\* call in progress in the foreground.  Which method the foreground calls
\* next and what the device sends are free.
Fairness ==
    /\ \A t \in Threads :
         /\ WF_vars(TLoop(t)) /\ WF_vars(TAvail(t))
         /\ WF_vars(TReadByte(t)) /\ WF_vars(TReadTimeout(t))
         /\ WF_vars(TDecode(t)) /\ WF_vars(TClassify(t))
         /\ WF_vars(TCallback(t))
    /\ SendFairness /\ WF_vars(Return)
    /\ WF_vars(DisconnectJoined) /\ WF_vars(DisconnectJoinTimeout)

FairSendSpec == Init /\ [][Next]_vars /\ SendFairness

\* ------------------------------------------ the life of the connection
\* The foreground connects and disconnects and sends no command; the device
\* sends lines of its own.
NextLife ==
    \/ Connect
    \/ DisconnectBegin
    \/ DisconnectJoined
    \/ DisconnectJoinTimeout
    \/ Return
    \/ \E t \in Threads : TLoop(t)
    \/ \E t \in Threads : TAvail(t)
    \/ \E t \in Threads : TReadByte(t)
    \/ \E t \in Threads : TReadTimeout(t)
    \/ \E t \in Threads : TDecode(t)
    \/ \E t \in Threads : TClassify(t)
    \/ \E t \in Threads : TCallback(t)
    \/ DeviceTelemetry
    \/ DeviceByte

FairLifeSpec == Init /\ [][NextLife]_vars /\ Fairness

\* --------------------------------------------- the handler called directly
\* Frames a caller can hand to handle_telemetry.
HandlerFrames ==
    { Obj(k, "telemetry", "", st, jn) :
        k \in { {"type"}, {"type", "joints"}, {"type", "state"},
                {"type", "joints", "state"} },
        st \in {"idle", "manual", "estop", "fault"},
        jn \in {Five, Six} }

\* What the status label can show before a frame arrives.
Labels ==
    { [text |-> <<"Status: ", "Disconnected">>, fg |-> "red"],
      [text |-> <<"Status: ", "Connected">>, fg |-> "green"],
      [text |-> <<"Status: ", "Manual">>, fg |-> "blue"],
      [text |-> <<"Status: ", "Estop">>, fg |-> "red"],
      [text |-> <<"Status: ", "fault">>, fg |-> "orange"] }

\* A subscriber is about to be called with a frame.
InitHandler ==
    /\ port = "COM7"
    /\ serial = NoHandle
    /\ running = FALSE
    /\ telemetry_thread = NoHandle
    /\ isOpen = {}
    /\ rx = <<>>
    /\ devOut = <<>>
    /\ pending = <<>>
    /\ emitted = 0
    /\ tpc = [t \in Threads |-> IF t = 1 THEN "cb" ELSE "none"]
    /\ tH = [t \in Threads |-> NoHandle]
    /\ tline = [t \in Threads |-> <<>>]
    /\ \E f \in HandlerFrames : tdata = [t \in Threads |-> IF t = 1 THEN f ELSE PyNone]
    /\ fpc = "idle"
    /\ call = ""
    /\ response_line = <<>>
    /\ elapsed = 0
    /\ response = PyNone
    /\ ret = PyNone
    /\ result = PyNone
    /\ raised = ""
    /\ current_angles \in {<<90, 45, 120, 90, 0, 30>>, Six}
    /\ status_label \in Labels

NextHandler == \E t \in Threads : TCallback(t)

SpecHandler == InitHandler /\ [][NextHandler]_vars

\* ------------------------------------------------------------------ claims
\* The foreground is at the return of a send_command wrapper.
SendReturned == fpc = "ret" /\ call \in CmdNames

\* send_command returns a decoded reply: not None, not the synthetic success.
RealReply == SendReturned /\ ret # PyNone /\ ret # SyntheticOk

\* The dict is a reply as the wire format defines it: it has cmd and is not
\* typed telemetry.
IsReply(v) == IsDict(v) /\ "cmd" \in v.keys /\ GetType(v) # "telemetry"

EstopLabel == [text |-> <<"Status: ", "Estop">>, fg |-> "red"]

\* The thread t leaves the callback in this step.
CallbackDone(t) == tpc[t] = "cb" /\ tpc'[t] # "cb"

\* C1: while a Transport is open, at most one dispatcher thread is alive.
C1_AtMostOneDispatcher ==
    Connected => Cardinality({t \in Threads : Alive(t)}) <= 1

\* C2: a decoded reply that send_command returns answers the command written
\* in that call: its cmd is the name of the command just sent.
C2_ReplyAnswersThisCall ==
    RealReply => ret.cmd = call

\* C3: when send_command's wait ends without a newline having been read, it
\* returns None.
C3_NoNewlineGivesNone ==
    (SendReturned /\ \A i \in 1..Len(response_line) : ~IsNL(response_line[i]))
        => ret = PyNone

C5_ShortJointsNeverForwarded ==
    \A t \in Threads : tpc[t] = "cb" => Len(tdata[t].joints) = 6

\* C6: every decoded line typed telemetry goes to the callback, whichever of
\* joints and state it carries.
C6_EveryTelemetryForwarded ==
    [][\A t \in Threads :
          (tpc[t] = "data" /\ tpc'[t] # "data"
             /\ IsDict(tdata[t]) /\ GetType(tdata[t]) = "telemetry")
          => tpc'[t] = "cb"]_vars

\* C7: the handler leaves the joint angles and the observed state unchanged
\* for a frame whose joints has a length other than 6.
C7_NotPartiallyApplied ==
    [][\A t \in Threads :
          (CallbackDone(t) /\ "joints" \in tdata[t].keys
             /\ Len(tdata[t].joints) # 6)
          => UNCHANGED <<current_angles, status_label>>]_vars

\* C8: after the handler is called with a frame whose state is "estop", the
\* observed state is estop, whatever it was and whatever joints the frame has.
C8_EstopObserved ==
    [][\A t \in Threads :
          (CallbackDone(t) /\ "state" \in tdata[t].keys
             /\ tdata[t].state = "estop")
          => status_label' = EstopLabel]_vars

C8_Witness ==
    /\ tpc[1] = "loop"
    /\ status_label = EstopLabel
    /\ current_angles = <<90, 45, 120, 90, 0, 30>>

\* A step of disconnect(): its first statement, or the join and the close.
DisconnectStep ==
    \/ fpc = "idle" /\ fpc' = "join"
    \/ fpc = "join" /\ fpc' = "ret"

\* C9: disconnect() ends with no Transport open and returns normally; on a
\* controller with no open Transport (never connected, or already
\* disconnected) it closes nothing and changes no state of the controller.
C9_DisconnectIdempotent ==
    [][DisconnectStep =>
          /\ fpc' = "ret" => (~Connected' /\ result' = PyNone)
          /\ ~Connected => UNCHANGED <<port, serial, running, telemetry_thread,
                                       isOpen, rx>>]_vars

C9_Witness ==
    fpc = "join" /\ serial # NoHandle /\ ~Connected

\* C10: when the first complete line send_command reads after its write is a
\* JSON object with cmd that is not typed telemetry, send_command returns
\* exactly that object, with the cmd the line has on the wire.
C10_FirstReplyLineReturned ==
    (SendReturned /\ response_line # <<>>
       /\ IsNL(response_line[Len(response_line)]) /\ IsReply(response))
        => (ret = response /\ ret.cmd = response_line[1].kind)

C10_Witness ==
    /\ SendReturned /\ call = "set_joints"
    /\ response = ReplyOk("set_joints")
    /\ ret = ReplyOk("set_joints")
    /\ IsNL(response_line[Len(response_line)])

\* The wrappers that return a boolean for "send_command gave a value".
BoolWrappers == {"set_joints", "play_idle", "estop"}

\* C11: when what send_command decodes is JSON but not a reply (typed
\* telemetry, without cmd, or not an object), it returns the synthetic success
\* and has read nothing past that line; set_joints, play_idle and
\* emergency_stop return true exactly when send_command returned a value, and
\* get_state returns send_command's value itself.
C11_NonReplyGivesSynthetic ==
    /\ (SendReturned /\ response \notin {PyNone, DecodeError} /\ ~IsReply(response))
           => /\ ret = SyntheticOk
              /\ \A i \in 1..(Len(response_line) - 1) : ~IsNL(response_line[i])
    /\ (SendReturned /\ call \in BoolWrappers)
           => (result = PyTrue <=> ret # PyNone) /\ result \in {PyTrue, PyFalse}
    /\ (SendReturned /\ call = "get_state") => result = ret

C11_Witness ==
    /\ SendReturned /\ call = "set_joints"
    /\ GetType(response) = "telemetry"
    /\ ret = SyntheticOk
    /\ result = PyTrue

\* connect() returns false in this step.
ConnectFails == fpc = "idle" /\ call' = "connect" /\ result' = PyFalse

\* connect() opens the port and returns true.
ConnectOk == Connect /\ result' = PyTrue

\* The counters of the model leave room for one more connection.
RoomToConnect == serial < MaxConnects /\ serial + emitted < MaxEvents

\* C12: a connect() that fails while no Transport is open returns false
\* without starting a dispatcher thread, without opening a Transport and
\* without raising the running flag, whether no port was found or the open
\* failed; and whenever the controller is idle with no Transport open, a
\* connect() that succeeds is possible.
C12_FailedConnectLeavesDisconnected ==
    /\ [][(ConnectFails /\ ~Connected)
            => /\ UNCHANGED <<serial, running, telemetry_thread, isOpen, tpc>>
               /\ ~Connected' /\ ~running'
               /\ fpc' = "ret"]_vars
    /\ []((fpc = "idle" /\ ~Connected /\ RoomToConnect) => ENABLED ConnectOk)

C12_Witness ==
    /\ fpc = "ret" /\ call = "connect" /\ result = PyFalse
    /\ ~Connected /\ serial # NoHandle /\ port = "COM7"

\* What a wrapper returns when send_command gives None.
NoReply(c) == IF c = "get_state" THEN PyNone ELSE PyFalse

\* C13: an exception raised by the write or by the read is caught inside
\* send_command, and the call returns; after such an exception, and after a
\* line that json.loads rejects, send_command returns None having read
\* nothing past that line, and the boolean wrappers return false.
C13_ErrorsGiveNone ==
    /\ raised # "" => SendReturned
    /\ (SendReturned /\ (raised # "" \/ response = DecodeError))
           => /\ ret = PyNone
              /\ result = NoReply(call)
              /\ \A i \in 1..(Len(response_line) - 1) : ~IsNL(response_line[i])

C13_Witness ==
    /\ SendReturned /\ call = "play_idle"
    /\ response = DecodeError /\ IsNL(response_line[Len(response_line)])
    /\ ret = PyNone /\ result = PyFalse

\* The thread t takes a step of readline() in this step.
ReadsTransport(t) ==
    tpc[t] = "read" /\ <<tpc'[t], tline'[t]>> # <<tpc[t], tline[t]>>

\* The thread t evaluates in_waiting in this step.
ChecksAvailable(t) == tpc[t] = "avail" /\ tpc'[t] # "avail"

\* C14: the dispatcher thread that disconnect() joins makes no read and no
\* availability check on a Transport that has been closed.
C14_NoReadAfterClose ==
    [][\A t \in Threads :
          t = telemetry_thread =>
            /\ ReadsTransport(t) => tH[t] \in isOpen
            /\ ChecksAvailable(t) => Connected]_vars

\* C15: decoding and classifying a line never ends the dispatcher loop: a
\* line that is not JSON, a JSON value that is not an object and an object
\* that is not telemetry are dropped, and the thread goes on.
C15_DiscardedLineKeepsLoop ==
    [][\A t \in Threads :
          (tpc[t] \in {"got", "data"} /\ tpc'[t] # tpc[t])
          => tpc'[t] \in {"loop", "data", "cb"}]_vars

\* The thread t ends its loop on an exception from the Transport.
ReadError(t) == (ReadsTransport(t) \/ ChecksAvailable(t)) /\ tpc'[t] = "done"

\* C16: an exception from the Transport inside the dispatcher ends that
\* thread and nothing else: the controller's fields, the open handles and the
\* foreground are as they were, so a connection that was open and running is
\* still open and running; and disconnect() afterwards, as always, returns
\* normally with the Transport closed.
C16_ReadErrorEndsOnlyDispatcher ==
    /\ [][\A t \in Threads :
             ReadError(t) => /\ UNCHANGED <<ctl, isOpen, fg>>
                             /\ (Connected /\ running) => (Connected' /\ running')]_vars
    /\ [][(fpc = "join" /\ fpc' = "ret")
            => (~Connected' /\ result' = PyNone /\ raised' = "")]_vars

C16_Witness ==
    /\ telemetry_thread = 1 /\ tpc[1] = "done" /\ emitted = 0
    /\ running /\ Connected /\ fpc = "idle"

\* disconnect() has cleared the running flag and is joining the thread t.
StopRaised(t) == fpc = "join" /\ telemetry_thread = t /\ Alive(t)

\* C17: after disconnect() has cleared the running flag, the dispatcher
\* thread it joins eventually exits, whatever the foreground does next.
C17_StoppedDispatcherExits ==
    \A t \in Threads : StopRaised(t) ~> ~Alive(t)

\* send_command is inside its wait loop.
Waiting == fpc \in {"wait", "read"}

\* C18: a send_command call that has entered its wait loop eventually
\* returns, whatever arrives on the Transport and whatever the dispatcher
\* takes from it.
C18_SendCommandReturns ==
    Waiting ~> SendReturned

C18_Witness ==
    /\ SendReturned /\ raised = "" /\ Connected
    /\ response_line # <<>>
    /\ \A i \in 1..Len(response_line) : ~IsNL(response_line[i])

\* No Transport is open: connect() never succeeded, or the handle is closed.
NoTransport == serial = NoHandle \/ serial \notin isOpen

\* C19: a command sent while no Transport is open returns at once: None from
\* send_command, false from the boolean wrappers, nothing written to the
\* device, no exception, and the controller and the Transport as they were.
C19_SendWithoutTransport ==
    [][(fpc = "idle" /\ call' \in CmdNames /\ NoTransport)
        => /\ fpc' = "ret"
           /\ ret' = PyNone
           /\ result' = NoReply(call')
           /\ raised' = ""
           /\ UNCHANGED <<ctl, env>>]_vars

C19_Witness ==
    /\ SendReturned /\ call = "estop"
    /\ NoTransport /\ serial # NoHandle
    /\ ret = PyNone /\ result = PyFalse

\* send_command has written its command on an open Transport whose
\* dispatcher thread is running, the device has answered it with the only
\* line it ever sent, and every byte of that line has been taken from the
\* input queue before the call returned.
OnlyReplyConsumed ==
    /\ SendReturned /\ raised = ""
    /\ Connected /\ running
    /\ \E t \in Threads : t = telemetry_thread /\ Alive(t)
    /\ emitted = 1 /\ pending = <<>>
    /\ devOut = <<>> /\ rx = <<>>

\* C20: when the device answers the command with one well-formed reply line
\* and sends nothing else, send_command returns that reply.
C20_ReplyNotStolen ==
    OnlyReplyConsumed => (IsReply(ret) /\ ret.cmd = call)

\* The text send_command hands to json.loads when it returns.
SendDecodes == SendReturned /\ raised = "" /\ Strip(response_line) # <<>>

\* The thread t is about to hand a text to json.loads.
ThreadDecodes(t) == tpc[t] = "got" /\ Strip(tline[t]) # <<>>

\* C21: every text handed to json.loads, by send_command and by the
\* dispatcher, is the whole text of one line the device emitted.
C21_DecodesWholeLines ==
    /\ SendDecodes => WholeLine(Strip(response_line))
    /\ \A t \in Threads : ThreadDecodes(t) => WholeLine(Strip(tline[t]))

====
